---- MODULE Spec2Model ----
(***************************************************************************)
(* State-machine model of generate_dataset_replica.py: argument parsing,   *)
(* the simulator lifecycle (make_simulator_from_settings), the scene       *)
(* selector (build_widget_ui, on_scene_ddl_change), the load step, the     *)
(* scripted trajectory loop and the final pickle dump.                     *)
(*                                                                         *)
(* Units.  World time is counted in ticks of 1/60 s, so that both the      *)
(* 1/30 s step of the trajectory loop and the 1/60 s step of simulate()    *)
(* are whole numbers.  Translations are counted in tenths of a metre.      *)
(* Rotations are counted in yaw increments of -(pi/2)/20 rad about Y.      *)
(* Scene handles are strings, modelled as sequences of characters so that  *)
(* Python's substring test ("NONE" not in scene_handle) is computed.       *)
(***************************************************************************)
EXTENDS Integers, Sequences, FiniteSets, TLC

VARIABLES
    pc,              \* position of the script (which top-level block runs next)
    ret,             \* where make_simulator_from_settings returns to
    is_main,         \* __name__ == "__main__"
    argv,            \* the command-line flags given
    display,         \* global display
    make_video,      \* global make_video
    HAS_WIDGETS,     \* import of ipywidgets succeeded
    scene_handles,   \* what metadata_mediator.get_scene_handles() returns
    sim_settings,    \* the settings record (its "scene", "width", "height")
    cfg,             \* the configuration built by make_cfg in the current call
    sims,            \* every simulator constructed so far, in order
    sim,             \* global sim: index into sims, 0 for None
    selected_scene,  \* global selected_scene
    ddl,             \* the dropdown: built?, its current value
    ev_log,          \* change events delivered so far: value and position
    observations,    \* list observations
    translations,    \* list translations
    rotations,       \* list rotations
    start_time,      \* start_time of the trajectory loop
    count,           \* count
    translation,     \* sim.agents[0].scene_node.translation
    rotation,        \* sim.agents[0].scene_node.rotation (yaw increments)
    iter,            \* completed loop iterations (history)
    calls,           \* how often each external operation was called (history)
    frame_files,     \* indices idx of the frame images on disk
    data_pkl         \* content of output/data.pkl

vars == << pc, ret, is_main, argv, display, make_video, HAS_WIDGETS,
           scene_handles, sim_settings, cfg, sims, sim, selected_scene, ddl,
           ev_log, observations, translations, rotations, start_time, count,
           translation, rotation, iter, calls, frame_files, data_pkl >>

(***************************************************************************)
(* Bounds of the model.                                                    *)
(***************************************************************************)
MaxHandles == 2      \* longest list of scene handles enumerated
MaxEvents == 2       \* most dropdown change events delivered in one run

(***************************************************************************)
(* Program constants.                                                      *)
(***************************************************************************)
TicksPerSecond == 60        \* resolution of the model's clock
LoopHz == 30                \* sim.step_physics(1.0 / 30.0)
SimulateHz == 60            \* sim.step_physics(1.0 / 60.0) in simulate()
LoopSeconds == 4            \* start_time + 4.0
TurnEnd == 40               \* if count < 40
AdvanceXEnd == 60           \* elif count < 60
AdvanceZEnd == 80           \* elif count < 80
StartX == -20               \* translation = mn.Vector3([-2, 0, 0])
AdvanceStep == 3            \* np.array([0.3, 0, 0]) and np.array([0.0, 0, 0.3])
DriftStep == -1             \* np.array([-0.1, 0, -0.1])
Width == 1280               \* settings["width"]
Height == 720               \* settings["height"]

(***************************************************************************)
(* Strings.                                                                *)
(***************************************************************************)
NONE == << "N", "O", "N", "E" >>
Undefined == << "undefined" >>      \* a global that is not yet assigned
NoFile == << "no file" >>

\* The scene handles the engine may enumerate: the sentinel, two scenes, and
\* a scene whose name contains the sentinel's letters.
Handles == { NONE, << "a" >>, << "b" >>, << "a", "N", "O", "N", "E" >> }

RECURSIVE SeqsUpTo(_)
SeqsUpTo(n) ==
    IF n = 0 THEN { << >> }
    ELSE LET shorter == SeqsUpTo(n - 1)
         IN  shorter \cup { Append(s, h) : s \in shorter, h \in Handles }

Range(s) == { s[i] : i \in 1..Len(s) }

\* Python's  sub in s  on strings.
Contains(sub, s) ==
    \E i \in 0..(Len(s) - Len(sub)) : SubSeq(s, i + 1, i + Len(sub)) = sub

(***************************************************************************)
(* Pure parts of the program.                                              *)
(***************************************************************************)
\* argparse: a store_false flag is True unless the flag is given.
StoreFalse(flag, args) == flag \notin args

\* make_default_settings
make_default_settings == [ scene |-> NONE, width |-> Width, height |-> Height ]

\* make_cfg: the scene the simulator will load, and the sensor resolution.
make_cfg(settings) ==
    [ scene_id |-> settings.scene,
      resolution |-> << settings.height, settings.width >> ]

\* habitat_sim.Simulator(cfg): a fresh simulator at world time 0.
Simulator(c) == [ scene_id |-> c.scene_id, alive |-> TRUE, world_time |-> 0 ]

\* Variant of step_physics: every step lasts 1/60 s, whatever was asked for.
step_physics_Sixtieth(t, hz) == t + (TicksPerSecond \div SimulateHz)

\* sim.step_physics(1.0 / hz): the world time after the step, in ticks.
step_physics(t, hz) == t + (TicksPerSecond \div hz)

\* Variant of on_scene_ddl_change: stores the value the dropdown had before.
on_scene_ddl_change_Old(ddl_values) == ddl_values.old

\* on_scene_ddl_change: the value stored in selected_scene.
on_scene_ddl_change(ddl_values) == ddl_values.new

\* The handles of a list that the loop of build_widget_ui accepts.
ValidIndices(handles) ==
    { i \in 1..Len(handles) : ~ Contains(NONE, handles[i]) }

\* build_widget_ui, up to the test of HAS_WIDGETS: the default selection,
\* given the list and the selection stored before the call.
DefaultSelection(handles, previous) ==
    IF Len(handles) = 0 THEN NONE
    ELSE IF ValidIndices(handles) = {} THEN previous
    ELSE handles[CHOOSE i \in ValidIndices(handles) :
                    \A j \in ValidIndices(handles) : i <= j]

\* Variant of PoseDelta: the first boundary is tested with <= instead of <.
PoseDelta_OffByOne(c) ==
    IF c <= TurnEnd THEN [ move |-> << 0, 0, 0 >>, turn |-> 1 ]
    ELSE IF c < AdvanceXEnd THEN [ move |-> << AdvanceStep, 0, 0 >>, turn |-> 1 ]
    ELSE IF c < AdvanceZEnd THEN [ move |-> << 0, 0, AdvanceStep >>, turn |-> 1 ]
    ELSE [ move |-> << DriftStep, 0, DriftStep >>, turn |-> 0 ]

\* The pose change of one iteration, selected by count: the translation
\* added (x, y, z) and the number of yaw increments applied.
PoseDelta(c) ==
    IF c < TurnEnd THEN [ move |-> << 0, 0, 0 >>, turn |-> 1 ]
    ELSE IF c < AdvanceXEnd THEN [ move |-> << AdvanceStep, 0, 0 >>, turn |-> 1 ]
    ELSE IF c < AdvanceZEnd THEN [ move |-> << 0, 0, AdvanceStep >>, turn |-> 1 ]
    ELSE [ move |-> << DriftStep, 0, DriftStep >>, turn |-> 0 ]

Add3(u, v) == << u[1] + v[1], u[2] + v[2], u[3] + v[3] >>

\* Variant of CaptureBranch: rotations.append sits inside  if display.
CaptureBranch_RotationInDisplay(st, obs, tr, rot) ==
    IF make_video
    THEN LET captured ==
                 [ st EXCEPT !.observations = Append(@, obs),
                             !.translations = Append(@, tr),
                             !.get_obs = @ + 1 ]
         IN  IF display
             THEN [ captured EXCEPT !.rotations = Append(@, rot),
                                    !.frame_files = @ \cup { st.count },
                                    !.save_sample = @ + 1,
                                    !.count = @ + 1 ]
             ELSE captured
    ELSE st

\* Variant of CaptureBranch: if display sits beside if make_video, not in it.
CaptureBranch_DisplayOutside(st, obs, tr, rot) ==
    LET captured ==
            IF make_video
            THEN [ st EXCEPT !.observations = Append(@, obs),
                             !.translations = Append(@, tr),
                             !.rotations = Append(@, rot),
                             !.get_obs = @ + 1 ]
            ELSE st
    IN  IF display
        THEN [ captured EXCEPT !.frame_files = @ \cup { st.count },
                               !.save_sample = @ + 1,
                               !.count = @ + 1 ]
        ELSE captured

\* The capture branch of one iteration (if make_video: ...), applied to the
\* record st of what it may change; obs is what the sensors return.
CaptureBranch(st, obs, tr, rot) ==
    IF make_video
    THEN LET captured ==
                 [ st EXCEPT !.observations = Append(@, obs),
                             !.translations = Append(@, tr),
                             !.rotations = Append(@, rot),
                             !.get_obs = @ + 1 ]
         IN  IF display
             THEN [ captured EXCEPT !.frame_files = @ \cup { st.count },
                                    !.save_sample = @ + 1,
                                    !.count = @ + 1 ]
             ELSE captured
    ELSE st

\* Variant of data_to_save: the first captured frame is left out.
data_to_save_DropFirst(obs, rots, trs, settings) ==
    [ observations |-> IF obs = << >> THEN obs ELSE Tail(obs),
      rotations |-> rots,
      translations |-> trs,
      camera_info |-> [ width |-> settings.width, height |-> settings.height,
                        cx |-> settings.width \div 2,
                        cy |-> settings.height \div 2 ] ]

\* The mapping pickled at the end.
data_to_save(obs, rots, trs, settings) ==
    [ observations |-> obs,
      rotations |-> rots,
      translations |-> trs,
      camera_info |-> [ width |-> settings.width, height |-> settings.height,
                        cx |-> settings.width \div 2,
                        cy |-> settings.height \div 2 ] ]

(***************************************************************************)
(* Initial state: the module has been imported up to line 249.             *)
(***************************************************************************)
Flags == { "--no-display", "--no-make-video" }

Init ==
    /\ pc = "args"
    /\ ret = "none"
    /\ is_main \in BOOLEAN
    /\ argv \in IF is_main THEN SUBSET Flags ELSE { {} }
    /\ display = FALSE
    /\ make_video = FALSE
    /\ HAS_WIDGETS \in BOOLEAN
    /\ scene_handles \in SeqsUpTo(MaxHandles)
    /\ sim_settings = [ scene |-> Undefined, width |-> 0, height |-> 0 ]
    /\ cfg = [ scene_id |-> Undefined, resolution |-> << 0, 0 >> ]
    /\ sims = << >>
    /\ sim = 0
    /\ selected_scene = Undefined
    /\ ddl = [ built |-> FALSE, value |-> Undefined ]
    /\ ev_log = << >>
    /\ observations = << >>
    /\ translations = << >>
    /\ rotations = << >>
    /\ start_time = 0
    /\ count = 0
    /\ translation = << 0, 0, 0 >>
    /\ rotation = 0
    /\ iter = 0
    /\ calls = [ close |-> 0, construct |-> 0, get_obs |-> 0, save_sample |-> 0,
                 dump |-> 0, step_physics |-> [ hz \in { LoopHz, SimulateHz } |-> 0 ] ]
    /\ frame_files = {}
    /\ data_pkl = NoFile

(***************************************************************************)
(* Actions.                                                                *)
(***************************************************************************)
\* Lines 250-264: the flags.
ParseArgs ==
    /\ pc = "args"
    /\ display' = (is_main /\ StoreFalse("--no-display", argv))
    /\ make_video' = (is_main /\ StoreFalse("--no-make-video", argv))
    /\ pc' = "initialize"
    /\ UNCHANGED << ret, is_main, argv, HAS_WIDGETS, scene_handles,
                    sim_settings, cfg, sims, sim, selected_scene, ddl, ev_log,
                    observations, translations, rotations, start_time, count,
                    translation, rotation, iter, calls, frame_files, data_pkl >>

\* Lines 296-297: default settings, then the first call of
\* make_simulator_from_settings.
Initialize ==
    /\ pc = "initialize"
    /\ sim_settings' = make_default_settings
    /\ ret' = "select"
    /\ pc' = "mk_close"
    /\ UNCHANGED << is_main, argv, display, make_video, HAS_WIDGETS,
                    scene_handles, cfg, sims, sim, selected_scene, ddl, ev_log,
                    observations, translations, rotations, start_time, count,
                    translation, rotation, iter, calls, frame_files, data_pkl >>

\* Variant of MkClose: the current simulator is not closed.
MkClose_NoClose ==
    /\ pc = "mk_close"
    /\ cfg' = make_cfg(sim_settings)
    /\ pc' = "mk_construct"
    /\ UNCHANGED << ret, is_main, argv, display, make_video, HAS_WIDGETS,
                    scene_handles, sim_settings, sim, selected_scene, ddl,
                    ev_log, observations, translations, rotations, start_time,
                    count, translation, rotation, iter, frame_files, data_pkl,
                    sims, calls >>

\* make_simulator_from_settings, lines 130-140: build the configuration and
\* close the current simulator if there is one.
MkClose ==
    /\ pc = "mk_close"
    /\ cfg' = make_cfg(sim_settings)
    /\ IF sim # 0
       THEN /\ sims' = [ sims EXCEPT ![sim].alive = FALSE ]
            /\ calls' = [ calls EXCEPT !.close = @ + 1 ]
       ELSE UNCHANGED << sims, calls >>
    /\ pc' = "mk_construct"
    /\ UNCHANGED << ret, is_main, argv, display, make_video, HAS_WIDGETS,
                    scene_handles, sim_settings, sim, selected_scene, ddl,
                    ev_log, observations, translations, rotations, start_time,
                    count, translation, rotation, iter, frame_files, data_pkl >>

\* make_simulator_from_settings, line 142: construct the new simulator.
MkConstruct ==
    /\ pc = "mk_construct"
    /\ sims' = Append(sims, Simulator(cfg))
    /\ sim' = Len(sims) + 1
    /\ calls' = [ calls EXCEPT !.construct = @ + 1 ]
    /\ translation' = << 0, 0, 0 >>
    /\ rotation' = 0
    /\ pc' = "mk_managers"
    /\ UNCHANGED << ret, is_main, argv, display, make_video, HAS_WIDGETS,
                    scene_handles, sim_settings, cfg, selected_scene, ddl,
                    ev_log, observations, translations, rotations, start_time,
                    count, iter, frame_files, data_pkl >>

\* Variant of MkManagers: selected_scene keeps its value.
MkManagers_KeepSelection ==
    /\ pc = "mk_managers"
    /\ pc' = ret
    /\ ret' = "none"
    /\ UNCHANGED << is_main, argv, display, make_video, HAS_WIDGETS,
                    scene_handles, sim_settings, cfg, sims, sim, ddl, ev_log,
                    observations, translations, rotations, start_time, count,
                    translation, rotation, iter, calls, frame_files, data_pkl,
                    selected_scene >>

\* make_simulator_from_settings, lines 144-157: the managers, and the reset
\* of selected_scene; then the call returns.
MkManagers ==
    /\ pc = "mk_managers"
    /\ selected_scene' = NONE
    /\ pc' = ret
    /\ ret' = "none"
    /\ UNCHANGED << is_main, argv, display, make_video, HAS_WIDGETS,
                    scene_handles, sim_settings, cfg, sims, sim, ddl, ev_log,
                    observations, translations, rotations, start_time, count,
                    translation, rotation, iter, calls, frame_files, data_pkl >>

\* Line 304: build_widget_ui(sim.metadata_mediator), lines 218-247.
BuildWidgetUi ==
    /\ pc = "select"
    /\ selected_scene' = DefaultSelection(scene_handles, selected_scene)
    /\ ddl' = IF HAS_WIDGETS
              THEN [ built |-> TRUE, value |-> selected_scene' ]
              ELSE ddl
    /\ pc' = "load"
    /\ UNCHANGED << ret, is_main, argv, display, make_video, HAS_WIDGETS,
                    scene_handles, sim_settings, cfg, sims, sim, ev_log,
                    observations, translations, rotations, start_time, count,
                    translation, rotation, iter, calls, frame_files, data_pkl >>

\* The user picks another entry of the dropdown while the script is between
\* two blocks or has ended: the observer on_scene_ddl_change runs.
SceneChange ==
    /\ ddl.built
    /\ pc \in { "load", "done" }
    /\ Len(ev_log) < MaxEvents
    /\ \E new \in Range(scene_handles) \ { ddl.value } :
           /\ selected_scene' = on_scene_ddl_change([ new |-> new, old |-> ddl.value ])
           /\ ddl' = [ ddl EXCEPT !.value = new ]
           /\ ev_log' = Append(ev_log, [ new |-> new, at |-> pc ])
    /\ UNCHANGED << pc, ret, is_main, argv, display, make_video, HAS_WIDGETS,
                    scene_handles, sim_settings, cfg, sims, sim, observations,
                    translations, rotations, start_time, count, translation,
                    rotation, iter, calls, frame_files, data_pkl >>

\* Lines 311-314: the load step reads selected_scene once.
Load ==
    /\ pc = "load"
    /\ IF sim_settings.scene # selected_scene
       THEN /\ sim_settings' = [ sim_settings EXCEPT !.scene = selected_scene ]
            /\ ret' = "loop_init"
            /\ pc' = "mk_close"
       ELSE /\ pc' = "loop_init"
            /\ UNCHANGED << sim_settings, ret >>
    /\ UNCHANGED << is_main, argv, display, make_video, HAS_WIDGETS,
                    scene_handles, cfg, sims, sim, selected_scene, ddl, ev_log,
                    observations, translations, rotations, start_time, count,
                    translation, rotation, iter, calls, frame_files, data_pkl >>

\* Lines 316-321: the empty trajectory record and the start pose.
LoopInit ==
    /\ pc = "loop_init"
    /\ observations' = << >>
    /\ translations' = << >>
    /\ rotations' = << >>
    /\ start_time' = sims[sim].world_time
    /\ count' = 1
    /\ translation' = << StartX, 0, 0 >>
    /\ pc' = "loop"
    /\ UNCHANGED << ret, is_main, argv, display, make_video, HAS_WIDGETS,
                    scene_handles, sim_settings, cfg, sims, sim, selected_scene,
                    ddl, ev_log, rotation, iter, calls, frame_files, data_pkl >>

\* The condition of the while loop, line 322.
LoopCondition == sims[sim].world_time < start_time + LoopSeconds * TicksPerSecond

\* Lines 322-346: one iteration of the trajectory loop.
LoopIter ==
    /\ pc = "loop"
    /\ LoopCondition
    /\ LET delta == PoseDelta(count)
           tr == Add3(translation, delta.move)
           rot == rotation + delta.turn
           t == step_physics(sims[sim].world_time, LoopHz)
           st == CaptureBranch(
                     [ observations |-> observations,
                       translations |-> translations,
                       rotations |-> rotations,
                       frame_files |-> frame_files,
                       count |-> count,
                       get_obs |-> calls.get_obs,
                       save_sample |-> calls.save_sample ],
                     [ time |-> t, translation |-> tr, rotation |-> rot ],
                     tr, rot)
       IN  /\ translation' = tr
           /\ rotation' = rot
           /\ sims' = [ sims EXCEPT ![sim].world_time = t ]
           /\ observations' = st.observations
           /\ translations' = st.translations
           /\ rotations' = st.rotations
           /\ frame_files' = st.frame_files
           /\ count' = st.count
           /\ calls' = [ calls EXCEPT !.step_physics[LoopHz] = @ + 1,
                                      !.get_obs = st.get_obs,
                                      !.save_sample = st.save_sample ]
    /\ iter' = iter + 1
    /\ UNCHANGED << pc, ret, is_main, argv, display, make_video, HAS_WIDGETS,
                    scene_handles, sim_settings, cfg, sim, selected_scene, ddl,
                    ev_log, start_time, data_pkl >>

\* Line 322, condition false: the loop ends.
LoopExit ==
    /\ pc = "loop"
    /\ ~ LoopCondition
    /\ pc' = "save"
    /\ UNCHANGED << ret, is_main, argv, display, make_video, HAS_WIDGETS,
                    scene_handles, sim_settings, cfg, sims, sim, selected_scene,
                    ddl, ev_log, observations, translations, rotations,
                    start_time, count, translation, rotation, iter, calls,
                    frame_files, data_pkl >>

\* Lines 349-365: the camera record and the pickle dump.
SavePickle ==
    /\ pc = "save"
    /\ data_pkl' = data_to_save(observations, rotations, translations, sim_settings)
    /\ calls' = [ calls EXCEPT !.dump = @ + 1 ]
    /\ pc' = "done"
    /\ UNCHANGED << ret, is_main, argv, display, make_video, HAS_WIDGETS,
                    scene_handles, sim_settings, cfg, sims, sim, selected_scene,
                    ddl, ev_log, observations, translations, rotations,
                    start_time, count, translation, rotation, iter,
                    frame_files >>

Next ==
    \/ ParseArgs
    \/ Initialize
    \/ MkClose
    \/ MkConstruct
    \/ MkManagers
    \/ BuildWidgetUi
    \/ SceneChange
    \/ Load
    \/ LoopInit
    \/ LoopIter
    \/ LoopExit
    \/ SavePickle

Spec == Init /\ [][Next]_vars

\* The script is one sequential thread: each of its steps is taken when it
\* is the next one.  Nothing obliges the user to touch the dropdown.
ScriptStep ==
    \/ ParseArgs
    \/ Initialize
    \/ MkClose
    \/ MkConstruct
    \/ MkManagers
    \/ BuildWidgetUi
    \/ Load
    \/ LoopInit
    \/ LoopIter
    \/ LoopExit
    \/ SavePickle

FairSpec == Spec /\ WF_vars(ScriptStep)

(***************************************************************************)
(* Properties.                                                             *)
(***************************************************************************)
InLoopOrAfter == pc \in { "loop", "save", "done" }
AfterLoad == pc \in { "loop_init", "loop", "save", "done" }
AliveSims == { i \in 1..Len(sims) : sims[i].alive }

\* C1: observations, translations and rotations have the same length at
\* every iteration boundary and after the loop, whatever the flags; when
\* make_video is set that length is the number of completed iterations.
C1_EqualLengths ==
    /\ Len(observations) = Len(translations)
    /\ Len(translations) = Len(rotations)
    /\ (InLoopOrAfter /\ make_video) => Len(observations) = iter

C1_Witness ==
    /\ pc = "save"
    /\ make_video
    /\ ~ display
    /\ Len(rotations) = 120

\* C2: at most one simulator is alive at any moment, and once a call of
\* make_simulator_from_settings has returned exactly one is alive, the one
\* the global sim names.
C2_OneLiveSimulator ==
    /\ Cardinality(AliveSims) <= 1
    /\ (calls.construct > 0 /\ pc \notin { "mk_close", "mk_construct", "mk_managers" })
           => AliveSims = { sim }

C2_Witness ==
    /\ pc = "loop_init"
    /\ Len(sims) = 2
    /\ calls.close = 1
    /\ AliveSims = { 2 }

\* The first handle of a list that is not the sentinel, or the sentinel.
FirstNonSentinel(handles) ==
    LET ok == { i \in 1..Len(handles) : handles[i] # NONE }
    IN  IF ok = {} THEN NONE
        ELSE handles[CHOOSE i \in ok : \A j \in ok : i <= j]

\* C3: without widgets, build_widget_ui leaves selected_scene equal to the
\* first handle of the list that is not "NONE", or to "NONE" when there is
\* no such handle.
C3_FirstNonSentinel ==
    (pc = "load" /\ ~ HAS_WIDGETS) => selected_scene = FirstNonSentinel(scene_handles)

\* C4: the pose change of an iteration is fixed by count: below 40 one yaw
\* increment and no translation; from 40 to 59 +0.3 along X and one yaw
\* increment; from 60 to 79 +0.3 along Z and one yaw increment; from 80 on
\* (-0.1, 0, -0.1) and no rotation.
C4_PoseByCount ==
    [][ (iter' = iter + 1) =>
          /\ (count < 40) =>
                 /\ translation' = translation
                 /\ rotation' = rotation + 1
          /\ (40 <= count /\ count < 60) =>
                 /\ translation' = << translation[1] + 3, translation[2], translation[3] >>
                 /\ rotation' = rotation + 1
          /\ (60 <= count /\ count < 80) =>
                 /\ translation' = << translation[1], translation[2], translation[3] + 3 >>
                 /\ rotation' = rotation + 1
          /\ (count >= 80) =>
                 /\ translation' = << translation[1] - 1, translation[2], translation[3] - 1 >>
                 /\ rotation' = rotation ]_vars

C4_Witness ==
    /\ pc = "done"
    /\ count = 121
    /\ translation = << -1, 0, 19 >>
    /\ rotation = 79

\* C5: data.pkl is written exactly once, after the loop has ended, and holds
\* every observation, translation and rotation captured in the loop,
\* whatever the flags.
C5_SnapshotOnceAfterLoop ==
    /\ pc # "done" => (calls.dump = 0 /\ data_pkl = NoFile)
    /\ pc = "done" =>
           /\ calls.dump = 1
           /\ ~ LoopCondition
           /\ data_pkl.observations = observations
           /\ data_pkl.translations = translations
           /\ data_pkl.rotations = rotations
           /\ Len(data_pkl.observations) = calls.get_obs
           /\ Len(data_pkl.translations) = calls.get_obs
           /\ Len(data_pkl.rotations) = calls.get_obs

C5_Witness ==
    /\ pc = "done"
    /\ calls.dump = 1
    /\ make_video
    /\ Len(data_pkl.observations) = 120

\* C6: with --no-make-video nothing is retrieved, appended or written, even
\* with display set; with --no-display no frame image is written; with
\* neither flag every iteration appends one entry and writes one frame.
C6_Flags ==
    InLoopOrAfter =>
        /\ ("--no-make-video" \in argv) =>
               /\ calls.get_obs = 0
               /\ observations = << >>
               /\ translations = << >>
               /\ rotations = << >>
               /\ calls.save_sample = 0
               /\ frame_files = {}
        /\ ("--no-display" \in argv) =>
               /\ calls.save_sample = 0
               /\ frame_files = {}
        /\ (is_main /\ argv = {}) =>
               /\ Len(observations) = iter
               /\ Len(translations) = iter
               /\ Len(rotations) = iter
               /\ calls.save_sample = iter
               /\ frame_files = 1..iter

C6_Witness ==
    /\ pc = "done"
    /\ argv = { "--no-make-video" }
    /\ display
    /\ iter = 120
    /\ frame_files = {}

\* C7: count advances by one in every iteration, whatever the flags: after
\* k completed iterations count = 1 + k.
C7_ElapsedCounter == InLoopOrAfter => count = 1 + iter

\* C8: the loop ends in every run, after exactly 120 iterations, with one
\* physics step of 1/30 s per iteration and none of 1/60 s.
C8_Terminates120 ==
    /\ <>(pc = "done")
    /\ [](pc \in { "save", "done" } => iter = 120)
    /\ [](InLoopOrAfter =>
              /\ iter <= 120
              /\ calls.step_physics[30] = iter
              /\ calls.step_physics[60] = 0
              /\ sims[sim].world_time - start_time = 2 * iter)

C8_Witness ==
    /\ pc = "done"
    /\ iter = 120
    /\ calls.step_physics[30] = 120
    /\ ~ make_video

AtLoad(e) == e.at = "load"
EventsBeforeLoad == SelectSeq(ev_log, AtLoad)
EventDelivered == Len(ev_log') = Len(ev_log) + 1

\* C9: a change event between build_widget_ui and the load step sets
\* selected_scene to the new value and the trajectory loop runs on a
\* simulator built with that scene; a change event after the load step's read
\* changes neither sim_settings["scene"] nor the simulator, and rebuilds
\* nothing.
C9_SceneChange ==
    /\ [][ EventDelivered => selected_scene' = ev_log'[Len(ev_log')].new ]_vars
    /\ []((AfterLoad /\ EventsBeforeLoad # << >>) =>
              /\ sim_settings.scene = EventsBeforeLoad[Len(EventsBeforeLoad)].new
              /\ sims[sim].scene_id = EventsBeforeLoad[Len(EventsBeforeLoad)].new
              /\ AliveSims = { sim })
    /\ [][ (EventDelivered /\ AfterLoad) =>
              UNCHANGED << sim_settings, sims, sim, calls, pc >> ]_vars

C9_Witness ==
    /\ pc = "done"
    /\ Len(ev_log) = 2
    /\ ev_log[1].at = "load"
    /\ ev_log[2].at = "done"
    /\ ev_log[1].new # NONE
    /\ ev_log[2].new # ev_log[1].new
    /\ selected_scene = ev_log[2].new
    /\ sims[sim].scene_id = ev_log[1].new

\* C10: every call of make_simulator_from_settings ends with selected_scene
\* = "NONE"; so when the load step has rebuilt the simulator, selected_scene
\* differs from sim_settings["scene"]; and a run constructs at most two
\* simulators.
C10_SelectionReset ==
    /\ [][ pc = "mk_managers" => selected_scene' = NONE ]_vars
    /\ []((pc = "loop_init" /\ calls.construct = 2) =>
              /\ selected_scene = NONE
              /\ sim_settings.scene # selected_scene)
    /\ [](Len(sims) <= 2 /\ calls.construct = Len(sims))

C10_Witness ==
    /\ pc = "loop_init"
    /\ calls.construct = 2
    /\ ev_log # << >>
    /\ selected_scene = NONE
    /\ sim_settings.scene = ev_log[1].new

====
